---- MODULE Spec2Model ----
(***************************************************************************)
(* Model of convert.py (Spark Docs, DOCX to HTML converter): the style     *)
(* extractors, the run renderer, the table classifier and renderer, the    *)
(* paragraph renderer and the document walker.                             *)
(*                                                                         *)
(* Strings are sequences of one-character strings.  Rendered markup is a   *)
(* sequence of tokens: a token is either one template literal of the       *)
(* source's f-strings (for instance "<li>"), one entity written by         *)
(* html.escape (for instance "&lt;"), or one plain character.              *)
(***************************************************************************)
EXTENDS Integers, Sequences, FiniteSets, TLC

VARIABLES
    body,        \* doc.element.body: the children of the document body, in order
    pos,         \* number of children the loop of doc_to_html_body has consumed
    html_parts,  \* the accumulator of doc_to_html_body
    in_list,     \* the list-open flag of doc_to_html_body
    pc,          \* position of the running call
    arg,         \* argument of the function under call (function specifications)
    ret          \* [raised, val]: what the call returned, or that it raised

vars == <<body, pos, html_parts, in_list, pc, arg, ret>>

(***************************************************************************)
(* Bounds of the model.                                                    *)
(***************************************************************************)
MaxBlocks == 4
MaxRows == 3
MaxCols == 4
MaxRuns == 2
MaxLen == 2

(***************************************************************************)
(* Python values.                                                          *)
(***************************************************************************)
\* Python's None where a string is expected: a one-element sequence whose
\* element is no character, so it differs from every string, "" included.
None == <<"None">>

\* Truthiness of an optional string: None and "" are falsy.
Truthy(s) == s # None /\ s # <<>>

NoRet == [raised |-> FALSE, val |-> <<>>]
Returned(v) == [raised |-> FALSE, val |-> v]
Raised == [raised |-> TRUE, val |-> <<>>]

RECURSIVE Concat(_)
\* "".join(seqs)
Concat(seqs) == IF seqs = <<>> THEN <<>> ELSE Head(seqs) \o Concat(Tail(seqs))

\* All sequences over S of length 0..n.
SeqsUpTo(S, n) == UNION {[1..k -> S] : k \in 0..n}

LowerLetters == <<"a", "b", "c", "d", "e", "f", "h", "i", "n", "o", "t", "u", "w">>
UpperLetters == <<"A", "B", "C", "D", "E", "F", "H", "I", "N", "O", "T", "U", "W">>

UpperChar(c) ==
    IF \E k \in DOMAIN LowerLetters : LowerLetters[k] = c
    THEN UpperLetters[CHOOSE k \in DOMAIN LowerLetters : LowerLetters[k] = c]
    ELSE c

LowerChar(c) ==
    IF \E k \in DOMAIN UpperLetters : UpperLetters[k] = c
    THEN LowerLetters[CHOOSE k \in DOMAIN UpperLetters : UpperLetters[k] = c]
    ELSE c

\* str.upper() and str.lower()
Upper(s) == [k \in 1..Len(s) |-> UpperChar(s[k])]
Lower(s) == [k \in 1..Len(s) |-> LowerChar(s[k])]

Whitespace == {" ", "\n", "\t"}
Digits == {"0", "1", "2", "3", "4", "5", "6", "7", "8", "9"}

RECURSIVE LStrip(_)
LStrip(s) == IF s # <<>> /\ Head(s) \in Whitespace THEN LStrip(Tail(s)) ELSE s

RECURSIVE RStrip(_)
RStrip(s) ==
    IF s # <<>> /\ s[Len(s)] \in Whitespace THEN RStrip(SubSeq(s, 1, Len(s) - 1)) ELSE s

\* str.strip()
Strip(s) == RStrip(LStrip(s))

\* html.escape of one character (quote=True, the default)
EscapeChar(c) ==
    CASE c = "&" -> "&amp;"
      [] c = "<" -> "&lt;"
      [] c = ">" -> "&gt;"
      [] c = "\"" -> "&quot;"
      [] c = "'" -> "&#x27;"
      [] OTHER -> c

\* html.escape(s)
escape(s) == [k \in 1..Len(s) |-> EscapeChar(s[k])]

(***************************************************************************)
(* Colors.                                                                 *)
(***************************************************************************)
AUTO == <<"A", "U", "T", "O">>
NONE == <<"N", "O", "N", "E">>
WHITE == <<"W", "H", "I", "T", "E">>

x1E4D8C == <<"1", "E", "4", "D", "8", "C">>
x2E86C1 == <<"2", "E", "8", "6", "C", "1">>
x1A7A4A == <<"1", "A", "7", "A", "4", "A">>
xB7860B == <<"B", "7", "8", "6", "0", "B">>
xD6E4F0 == <<"D", "6", "E", "4", "F", "0">>
xF4F6F8 == <<"F", "4", "F", "6", "F", "8">>
xFEF9EC == <<"F", "E", "F", "9", "E", "C">>
xFFFDF4 == <<"F", "F", "F", "D", "F", "4">>
xFFFFFF == <<"F", "F", "F", "F", "F", "F">>
x1B2A4A == <<"1", "B", "2", "A", "4", "A">>
xC8E6C9 == <<"C", "8", "E", "6", "C", "9">>
xDCEDC8 == <<"D", "C", "E", "D", "C", "8">>
xFFF9C4 == <<"F", "F", "F", "9", "C", "4">>
xFFCDD2 == <<"F", "F", "C", "D", "D", "2">>
xEDE7F6 == <<"E", "D", "E", "7", "F", "6">>
xD6E4F7 == <<"D", "6", "E", "4", "F", "7">>
xF2F7FF == <<"F", "2", "F", "7", "F", "F">>
xEEF4FF == <<"E", "E", "F", "4", "F", "F">>
xF9F9F9 == <<"F", "9", "F", "9", "F", "9">>
x000000 == <<"0", "0", "0", "0", "0", "0">>
x1A1A2E == <<"1", "A", "1", "A", "2", "E">>
x333333 == <<"3", "3", "3", "3", "3", "3">>
xC8960C == <<"C", "8", "9", "6", "0", "C">>
x888888 == <<"8", "8", "8", "8", "8", "8">>
x555555 == <<"5", "5", "5", "5", "5", "5">>
x6B7A8D == <<"6", "B", "7", "A", "8", "D">>
\* a color listed in no table of the source
xABCDEF == <<"A", "B", "C", "D", "E", "F">>

\* COLOR_CLASS: fill hex -> CSS class, as pairs
COLOR_CLASS ==
    { <<x1E4D8C, "fill-navy">>, <<x2E86C1, "fill-blue">>, <<x1A7A4A, "fill-green">>,
      <<xB7860B, "fill-gold">>, <<xD6E4F0, "fill-sky">>, <<xF4F6F8, "fill-lightgray">>,
      <<xFEF9EC, "fill-goldtint-a">>, <<xFFFDF4, "fill-goldtint-b">>,
      <<xFFFFFF, "fill-white">>, <<x1B2A4A, "fill-navy">>,
      <<xC8E6C9, "fill-green-light">>, <<xDCEDC8, "fill-green-pale">>,
      <<xFFF9C4, "fill-yellow">>, <<xFFCDD2, "fill-red-light">>,
      <<xEDE7F6, "fill-purple-light">>, <<xD6E4F7, "fill-sky">>,
      <<xF2F7FF, "fill-sky-pale">>, <<xEEF4FF, "fill-sky-pale">>,
      <<xF9F9F9, "fill-lightgray">> }

\* dict.get(key, default) on a dict given as a set of pairs
DictGet(dict, key, default) ==
    IF \E p \in dict : p[1] = key
    THEN (CHOOSE p \in dict : p[1] = key)[2]
    ELSE default

(***************************************************************************)
(* Style extractors.  The attribute value is None when the element or the  *)
(* attribute is missing (every access failure ends in "return None").      *)
(***************************************************************************)
get_cell_fill(cell) ==
    LET fill == cell.fill IN
    IF Truthy(fill) /\ Upper(fill) \notin {AUTO, NONE, <<>>} THEN Upper(fill) ELSE None

get_run_color(run) ==
    LET val == run.color IN
    IF Truthy(val) /\ Upper(val) \notin {AUTO, <<>>} THEN Upper(val) ELSE None

get_para_shading(para) ==
    LET fill == para.shd IN
    IF Truthy(fill) /\ Upper(fill) \notin {AUTO, NONE, <<>>} THEN Upper(fill) ELSE None

(***************************************************************************)
(* Run renderer.  A run is [text, bold, italic, color]; bold and italic    *)
(* are "true", "false" or "unset" (python-docx's True, False, None).       *)
(***************************************************************************)
SuppressedColors == {x000000, x1A1A2E, x333333, xFFFFFF, WHITE}

\* color_map of runs_to_html
color_map ==
    { <<x2E86C1, "var(--blue)">>, <<x1E4D8C, "var(--navy)">>,
      <<x1A7A4A, "var(--green)">>, <<xB7860B, "var(--gold)">>,
      <<xC8960C, "var(--gold)">>, <<x888888, "var(--mid)">>,
      <<x555555, "var(--mid)">>, <<x6B7A8D, "var(--mid)">> }

\* the value of css_color
CssColor(color) ==
    IF \E p \in color_map : p[1] = color
    THEN <<DictGet(color_map, color, "")>>
    ELSE <<"#">> \o Lower(color)

WrapBold(run, text) ==
    IF run.bold = "true" THEN <<"<strong>">> \o text \o <<"</strong>">> ELSE text

WrapItalic(run, text) ==
    IF run.italic = "true" THEN <<"<em>">> \o text \o <<"</em>">> ELSE text

WrapColor(run, text) ==
    LET color == get_run_color(run) IN
    IF Truthy(color) /\ color \notin SuppressedColors
    THEN <<"<span style=\"color:">> \o CssColor(color) \o <<"\">">> \o text
         \o <<"</span>">>
    ELSE text

\* RunHtml with the escape of the run's text left out
RunHtmlUnescaped(run) ==
    LET text == run.text IN
    IF text = <<>> THEN <<>>
    ELSE WrapColor(run, WrapItalic(run, WrapBold(run, text)))

\* one iteration of the loop of runs_to_html: what the run appends to parts
RunHtml(run) ==
    LET text == escape(run.text) IN
    IF text = <<>> THEN <<>>
    ELSE WrapColor(run, WrapItalic(run, WrapBold(run, text)))

runs_to_html(paragraph) ==
    Concat([k \in 1..Len(paragraph.runs) |-> RunHtml(paragraph.runs[k])])

(***************************************************************************)
(* Paragraph renderer.  A paragraph is [kind, style, shd, runs, link]:     *)
(* style is "" when the paragraph has no style or its access fails; link   *)
(* is the text the paragraph holds outside its runs (python-docx's         *)
(* Paragraph.text covers hyperlink text, Paragraph.runs does not).         *)
(***************************************************************************)
\* para.text
ParaText(para) ==
    Concat([k \in 1..Len(para.runs) |-> para.runs[k].text]) \o para.link

StrongShadings == {x1E4D8C, x2E86C1, x1A7A4A, xB7860B, x1B2A4A}

\* runs_to_html(para) or escape(text)
ParaInner(para) ==
    IF runs_to_html(para) # <<>> THEN runs_to_html(para)
    ELSE escape(Strip(ParaText(para)))

\* para_to_html with the shading check placed before the style checks
para_to_html_shading_first(para) ==
    LET text == Strip(ParaText(para))
        style == para.style
        fill == get_para_shading(para)
        inner == ParaInner(para)
    IN  IF text = <<>> THEN None
        ELSE IF Truthy(fill) /\ Upper(fill) \in StrongShadings
        THEN <<"<div class=\"shaded-para ", DictGet(COLOR_CLASS, Upper(fill), "fill-navy"),
               "\">">> \o inner \o <<"</div>">>
        ELSE IF style = "Heading 1" THEN <<"<h1>">> \o inner \o <<"</h1>">>
        ELSE IF style = "Heading 2" THEN <<"<h2>">> \o inner \o <<"</h2>">>
        ELSE IF style = "Heading 3" THEN <<"<h3>">> \o inner \o <<"</h3>">>
        ELSE IF style = "List Paragraph" THEN <<"<li>">> \o inner \o <<"</li>">>
        ELSE <<"<p>">> \o inner \o <<"</p>">>

para_to_html(para) ==
    LET text == Strip(ParaText(para))
        style == para.style
        fill == get_para_shading(para)
        inner == ParaInner(para)
    IN  IF text = <<>> THEN None
        ELSE IF style = "Heading 1" THEN <<"<h1>">> \o inner \o <<"</h1>">>
        ELSE IF style = "Heading 2" THEN <<"<h2>">> \o inner \o <<"</h2>">>
        ELSE IF style = "Heading 3" THEN <<"<h3>">> \o inner \o <<"</h3>">>
        ELSE IF style = "List Paragraph" THEN <<"<li>">> \o inner \o <<"</li>">>
        ELSE IF Truthy(fill) /\ Upper(fill) \in StrongShadings
        THEN <<"<div class=\"shaded-para ", DictGet(COLOR_CLASS, Upper(fill), "fill-navy"),
               "\">">> \o inner \o <<"</div>">>
        ELSE <<"<p>">> \o inner \o <<"</p>">>

(***************************************************************************)
(* Tables.  A table is [kind, cols, rows]: cols is len(table.columns), the *)
(* declared column count; rows is a sequence of rows, a row the sequence   *)
(* of its cells (row.cells), which may hold fewer cells than cols.  A cell *)
(* is [fill, paras]: the raw w:fill value and the texts of its paragraphs. *)
(* Indexing a row past its cells raises IndexError, which no caller        *)
(* catches.                                                                *)
(***************************************************************************)
RECURSIVE JoinWith(_, _)
\* sep.join(seqs)
JoinWith(sep, seqs) ==
    IF seqs = <<>> THEN <<>>
    ELSE IF Len(seqs) = 1 THEN seqs[1]
    ELSE seqs[1] \o sep \o JoinWith(sep, Tail(seqs))

\* cell.text: the cell's paragraph texts joined by newlines
CellText(cell) == JoinWith(<<"\n">>, cell.paras)

classify_table(table) ==
    LET rows == table.rows
        cols == table.cols
    IN  IF Len(rows) = 0 THEN Returned("generic")
        ELSE IF Len(rows[1]) = 0 THEN Raised
        ELSE LET first_fill == get_cell_fill(rows[1][1]) IN
        IF ~Truthy(first_fill) THEN Returned("generic")
        ELSE LET f == Upper(first_fill) IN
        IF Len(rows) = 1 /\ cols = 2 /\ f \in {x2E86C1}
        THEN Returned("school-name-bar")
        ELSE IF Len(rows) = 1 /\ cols = 1
                /\ f \in {x1E4D8C, x2E86C1, x1A7A4A, xB7860B, x1B2A4A}
        THEN Returned("section-label")
        ELSE IF Len(rows) = 1 /\ cols = 2 /\ f \in {x1A7A4A}
        THEN Returned("got-right-header")
        ELSE IF cols = 2 /\ Len(rows) > 1 /\ f \in {xFFFFFF, xF4F6F8}
        THEN Returned("two-col-content")
        ELSE IF cols = 1 /\ Len(rows) >= 1 /\ f \in {xFEF9EC, xFFFDF4}
        THEN Returned("takeaway-box")
        ELSE IF cols = 2 /\ f \in {xD6E4F0, xD6E4F7}
        THEN Returned("info-grid")
        ELSE IF cols = 1 /\ f \in {x1E4D8C, x1B2A4A}
        THEN Returned("principle-header")
        ELSE IF f \in {x1B2A4A} /\ cols >= 3
        THEN Returned("score-table")
        ELSE IF Len(rows) = 1 /\ cols >= 4 /\ f \in {xC8E6C9}
        THEN Returned("score-legend")
        ELSE Returned("generic")

SchoolNameBarHtml(table) ==
    IF Len(table.rows[1]) < 2 THEN Raised
    ELSE LET name == escape(Strip(CellText(table.rows[1][1])))
             loc == escape(Strip(CellText(table.rows[1][2])))
         IN  Returned(<<"<div class=\"school-name-bar\"><span class=\"school-name\">">>
                      \o name \o <<"</span><span class=\"school-loc\">">> \o loc
                      \o <<"</span></div>">>)

SectionLabelHtml(table) ==
    LET cell == table.rows[1][1]
        text == escape(Strip(CellText(cell)))
        fill == IF Truthy(get_cell_fill(cell)) THEN get_cell_fill(cell) ELSE x1E4D8C
        css == DictGet(COLOR_CLASS, Upper(fill), "fill-navy")
    IN  Returned(<<"<div class=\"section-label ", css, "\">">> \o text \o <<"</div>">>)

GotRightHeaderHtml(table) ==
    Returned(<<"<div class=\"got-right-header\">What This Site Does Well</div>">>)

\* what row i (1-based; the source's index is i - 1) appends to rows_html
TwoColRowHtml(i, row) ==
    LET left == Strip(CellText(row[1]))
        right == Strip(CellText(row[2]))
        cls == IF (i - 1) % 2 = 1 THEN "row-alt" ELSE ""
    IN  IF left # <<>> \/ right # <<>>
        THEN <<"<div class=\"two-col-row ", cls, "\">", "<div class=\"two-col-cell\">">>
             \o escape(left) \o <<"</div>", "<div class=\"two-col-cell\">">>
             \o escape(right) \o <<"</div>", "</div>">>
        ELSE <<>>

TwoColContentHtml(table) ==
    IF \E i \in 1..Len(table.rows) : Len(table.rows[i]) < 2 THEN Raised
    ELSE Returned(<<"<div class=\"two-col-table\">">>
                  \o Concat([i \in 1..Len(table.rows) |-> TwoColRowHtml(i, table.rows[i])])
                  \o <<"</div>">>)

\* number of leading characters of s that belong to S
RECURSIVE LeadCount(_, _)
LeadCount(s, S) ==
    IF s # <<>> /\ Head(s) \in S THEN 1 + LeadCount(Tail(s), S) ELSE 0

Drop(s, n) == SubSeq(s, n + 1, Len(s))

\* re.sub(r'^\d+\.\s+', '', text)
StripNumbering(text) ==
    LET d == LeadCount(text, Digits)
        afterDot == Drop(text, d + 1)
        w == LeadCount(afterDot, Whitespace)
    IN  IF d >= 1 /\ Len(text) > d /\ text[d + 1] = "." /\ w >= 1
        THEN Drop(afterDot, w)
        ELSE text

\* what row i (1-based; the source's index is i - 1) appends to items_html
TakeawayItemHtml(i, row) ==
    LET text == Strip(CellText(row[1])) IN
    IF text # <<>>
    THEN <<"<div class=\"takeaway-item\">", "<span class=\"takeaway-num\">",
           ToString((i - 1) + 1), "</span>", "<span class=\"takeaway-text\">">>
         \o escape(StripNumbering(text)) \o <<"</span>", "</div>">>
    ELSE <<>>

TakeawayBoxHtml(table) ==
    IF \E i \in 1..Len(table.rows) : Len(table.rows[i]) < 1 THEN Raised
    ELSE Returned(<<"<div class=\"takeaway-box\">">>
                  \o Concat([i \in 1..Len(table.rows) |-> TakeawayItemHtml(i, table.rows[i])])
                  \o <<"</div>">>)

\* [p.text.strip() for p in cell.paragraphs if p.text.strip()]
RECURSIVE CellLines(_)
CellLines(paras) ==
    IF paras = <<>> THEN <<>>
    ELSE IF Strip(Head(paras)) # <<>>
    THEN <<Strip(Head(paras))>> \o CellLines(Tail(paras))
    ELSE CellLines(Tail(paras))

\* COLOR_CLASS.get((fill or "FFFFFF").upper(), default) for the cell's own fill
CellCss(cell, default) ==
    LET fill == get_cell_fill(cell) IN
    DictGet(COLOR_CLASS, Upper(IF Truthy(fill) THEN fill ELSE xFFFFFF), default)

InfoCellHtml(cell) ==
    LET lines == CellLines(cell.paras)
        content == JoinWith(<<"<br>">>, [k \in 1..Len(lines) |-> escape(lines[k])])
    IN  <<"<div class=\"info-cell ", CellCss(cell, "fill-white"), "\">">> \o content
        \o <<"</div>">>

InfoRowHtml(row) ==
    <<"<div class=\"info-row\">">>
    \o Concat([k \in 1..Len(row) |-> InfoCellHtml(row[k])]) \o <<"</div>">>

InfoGridHtml(table) ==
    Returned(<<"<div class=\"info-grid\">">>
             \o Concat([i \in 1..Len(table.rows) |-> InfoRowHtml(table.rows[i])])
             \o <<"</div>">>)

\* up to the first newline: what (.*) matches
RECURSIVE UntilNewline(_)
UntilNewline(s) ==
    IF s = <<>> \/ Head(s) = "\n" THEN <<>> ELSE <<Head(s)>> \o UntilNewline(Tail(s))

\* re.match(r'(Principle \d+:)\s+(.*)', text): [matched, label, title].  The
\* word "Principle" is one element of a text.
PrincipleMatch(text) ==
    LET afterWord == Drop(text, 2)
        d == LeadCount(afterWord, Digits)
        afterColon == Drop(afterWord, d + 1)
        w == LeadCount(afterColon, Whitespace)
    IN  IF /\ Len(text) >= 2 /\ text[1] = "Principle" /\ text[2] = " "
           /\ d >= 1 /\ Len(afterWord) > d /\ afterWord[d + 1] = ":"
           /\ w >= 1
        THEN [matched |-> TRUE, label |-> SubSeq(text, 1, 2 + d + 1),
              title |-> UntilNewline(Drop(afterColon, w))]
        ELSE [matched |-> FALSE, label |-> <<>>, title |-> <<>>]

PrincipleHeaderHtml(table) ==
    LET text == Strip(CellText(table.rows[1][1]))
        m == PrincipleMatch(text)
    IN  IF m.matched
        THEN Returned(<<"<div class=\"principle-header\"><span class=\"principle-label\">">>
                      \o escape(m.label) \o <<"</span> ">> \o escape(m.title)
                      \o <<"</div>">>)
        ELSE Returned(<<"<div class=\"principle-header\">">> \o escape(text)
                      \o <<"</div>">>)

\* a cell of the score table and of the generic table; i is 1-based
GridCellHtml(i, cell) ==
    LET open == IF i - 1 = 0 THEN "<th class=\"" ELSE "<td class=\""
        close == IF i - 1 = 0 THEN "</th>" ELSE "</td>"
    IN  <<open, CellCss(cell, ""), "\">">> \o escape(Strip(CellText(cell)))
        \o <<close>>

GridRowHtml(i, row) ==
    <<"<tr>">> \o Concat([k \in 1..Len(row) |-> GridCellHtml(i, row[k])]) \o <<"</tr>">>

ScoreTableHtml(table) ==
    Returned(<<"<div class=\"table-wrap\"><table class=\"score-table\">">>
             \o Concat([i \in 1..Len(table.rows) |-> GridRowHtml(i, table.rows[i])])
             \o <<"</table></div>">>)

LegendCellHtml(cell) ==
    <<"<div class=\"legend-cell ", CellCss(cell, ""), "\">">>
    \o escape(Strip(CellText(cell))) \o <<"</div>">>

ScoreLegendHtml(table) ==
    LET row == table.rows[1] IN
    Returned(<<"<div class=\"score-legend\">">>
             \o Concat([k \in 1..Len(row) |-> LegendCellHtml(row[k])]) \o <<"</div>">>)

GenericHtml(table) ==
    Returned(<<"<div class=\"table-wrap\"><table>">>
             \o Concat([i \in 1..Len(table.rows) |-> GridRowHtml(i, table.rows[i])])
             \o <<"</table></div>">>)

table_to_html(table) ==
    LET t == classify_table(table) IN
    IF t.raised THEN Raised
    ELSE IF t.val = "school-name-bar" THEN SchoolNameBarHtml(table)
    ELSE IF t.val = "section-label" THEN SectionLabelHtml(table)
    ELSE IF t.val = "got-right-header" THEN GotRightHeaderHtml(table)
    ELSE IF t.val = "two-col-content" THEN TwoColContentHtml(table)
    ELSE IF t.val = "takeaway-box" THEN TakeawayBoxHtml(table)
    ELSE IF t.val = "info-grid" THEN InfoGridHtml(table)
    ELSE IF t.val = "principle-header" THEN PrincipleHeaderHtml(table)
    ELSE IF t.val = "score-table" THEN ScoreTableHtml(table)
    ELSE IF t.val = "score-legend" THEN ScoreLegendHtml(table)
    ELSE GenericHtml(table)

(***************************************************************************)
(* Document walker: doc_to_html_body.  A child of the body is a paragraph  *)
(* (tag p), a table (tag tbl) or another element (for instance sectPr),    *)
(* which the loop passes over.                                             *)
(***************************************************************************)
Run(text, bold, italic, color) ==
    [text |-> text, bold |-> bold, italic |-> italic, color |-> color]

PlainRun(text) == Run(text, "unset", "unset", None)

Para(style, shd, runs, link) ==
    [kind |-> "p", style |-> style, shd |-> shd, runs |-> runs, link |-> link]

Cell(fill, paras) == [fill |-> fill, paras |-> paras]

Table(cols, rows) == [kind |-> "tbl", cols |-> cols, rows |-> rows]

OtherTag == [kind |-> "other"]

UlOpen == <<"<ul>">>
UlClose == <<"</ul>">>

\* html_parts after "if in_list: html_parts.append('</ul>')"
CloseList(parts, open) == IF open THEN Append(parts, UlClose) ELSE parts

Walking == pc = "walk" /\ pos < Len(body)

\* StepBlankPara without the reset of the flag
StepBlankParaKeepsFlag ==
    /\ Walking
    /\ body[pos + 1].kind = "p"
    /\ para_to_html(body[pos + 1]) = None
    /\ html_parts' = CloseList(html_parts, in_list)
    /\ in_list' = in_list
    /\ pos' = pos + 1
    /\ UNCHANGED <<body, pc, arg, ret>>

\* a paragraph for which para_to_html returns None
StepBlankPara ==
    /\ Walking
    /\ body[pos + 1].kind = "p"
    /\ para_to_html(body[pos + 1]) = None
    /\ html_parts' = CloseList(html_parts, in_list)
    /\ in_list' = FALSE
    /\ pos' = pos + 1
    /\ UNCHANGED <<body, pc, arg, ret>>

\* a paragraph whose fragment starts with '<li>'
StepListItem ==
    /\ Walking
    /\ body[pos + 1].kind = "p"
    /\ LET result == para_to_html(body[pos + 1]) IN
       /\ result # None
       /\ result[1] = "<li>"
       /\ html_parts' = Append(IF in_list THEN html_parts
                               ELSE Append(html_parts, UlOpen), result)
    /\ in_list' = TRUE
    /\ pos' = pos + 1
    /\ UNCHANGED <<body, pc, arg, ret>>

\* StepOtherPara without the close of an open list
StepOtherParaKeepsList ==
    /\ Walking
    /\ body[pos + 1].kind = "p"
    /\ LET result == para_to_html(body[pos + 1]) IN
       /\ result # None
       /\ result[1] # "<li>"
       /\ html_parts' = Append(html_parts, result)
    /\ in_list' = in_list
    /\ pos' = pos + 1
    /\ UNCHANGED <<body, pc, arg, ret>>

\* a paragraph with any other fragment
StepOtherPara ==
    /\ Walking
    /\ body[pos + 1].kind = "p"
    /\ LET result == para_to_html(body[pos + 1]) IN
       /\ result # None
       /\ result[1] # "<li>"
       /\ html_parts' = Append(CloseList(html_parts, in_list), result)
    /\ in_list' = FALSE
    /\ pos' = pos + 1
    /\ UNCHANGED <<body, pc, arg, ret>>

\* StepTable without the append of the table's fragment
StepTableDropsFragment ==
    /\ Walking
    /\ body[pos + 1].kind = "tbl"
    /\ in_list' = FALSE
    /\ LET r == table_to_html(body[pos + 1]) IN
       IF r.raised
       THEN /\ html_parts' = CloseList(html_parts, in_list)
            /\ pc' = "raised"
            /\ ret' = Raised
            /\ pos' = pos
       ELSE /\ html_parts' = CloseList(html_parts, in_list)
            /\ pos' = pos + 1
            /\ UNCHANGED <<pc, ret>>
    /\ UNCHANGED <<body, arg>>

\* a table: the list is closed, then table_to_html runs; its IndexError leaves
\* doc_to_html_body uncaught
StepTable ==
    /\ Walking
    /\ body[pos + 1].kind = "tbl"
    /\ in_list' = FALSE
    /\ LET r == table_to_html(body[pos + 1]) IN
       IF r.raised
       THEN /\ html_parts' = CloseList(html_parts, in_list)
            /\ pc' = "raised"
            /\ ret' = Raised
            /\ pos' = pos
       ELSE /\ html_parts' = Append(CloseList(html_parts, in_list), r.val)
            /\ pos' = pos + 1
            /\ UNCHANGED <<pc, ret>>
    /\ UNCHANGED <<body, arg>>

\* a child that is neither a paragraph nor a table
StepOtherTag ==
    /\ Walking
    /\ body[pos + 1].kind = "other"
    /\ pos' = pos + 1
    /\ UNCHANGED <<body, html_parts, in_list, pc, arg, ret>>

\* Finish without the terminal close
FinishNoTerminalClose ==
    /\ pc = "walk"
    /\ pos = Len(body)
    /\ html_parts' = html_parts
    /\ ret' = Returned(JoinWith(<<"\n">>, html_parts'))
    /\ pc' = "done"
    /\ UNCHANGED <<body, pos, in_list, arg>>

\* after the loop: the terminal close and the join
Finish ==
    /\ pc = "walk"
    /\ pos = Len(body)
    /\ html_parts' = CloseList(html_parts, in_list)
    /\ ret' = Returned(JoinWith(<<"\n">>, html_parts'))
    /\ pc' = "done"
    /\ UNCHANGED <<body, pos, in_list, arg>>

(***************************************************************************)
(* Inputs.                                                                 *)
(***************************************************************************)
TextCell(fill, text) == Cell(fill, <<text>>)

\* a row of n cells, all alike
RowOf(n, cell) == [k \in 1..n |-> cell]

\* the body children the walker is run on
WalkBlocks ==
    { Para("", None, <<>>, <<>>),
      Para("List Paragraph", None, <<PlainRun(<<" ">>)>>, <<>>),
      Para("List Paragraph", None, <<PlainRun(<<"a">>)>>, <<>>),
      Para("List Paragraph", x1E4D8C, <<PlainRun(<<"b">>)>>, <<>>),
      Para("", None, <<PlainRun(<<"c">>)>>, <<>>),
      Para("Heading 1", None, <<PlainRun(<<"d">>)>>, <<>>),
      Para("Normal", Lower(x2E86C1), <<PlainRun(<<"e">>)>>, <<>>),
      Table(1, <<RowOf(1, TextCell(None, <<"f">>))>>),
      Table(2, <<RowOf(2, TextCell(xFFFFFF, <<"g">>)),
                 RowOf(1, TextCell(xFFFFFF, <<"g">>))>>),
      OtherTag }

WalkStart ==
    /\ pos = 0
    /\ html_parts = <<>>
    /\ in_list = FALSE
    /\ pc = "walk"
    /\ arg = <<>>
    /\ ret = NoRet

Init ==
    /\ body \in SeqsUpTo(WalkBlocks, MaxBlocks)
    /\ WalkStart

Next ==
    \/ StepBlankPara
    \/ StepListItem
    \/ StepOtherPara
    \/ StepTable
    \/ StepOtherTag
    \/ Finish

Spec == Init /\ [][Next]_vars

\* Texts with the markup-significant characters, and the blocks that carry
\* them along every rendering path.
EscChars == {"a", "<", "&", "\""}
EscTexts == SeqsUpTo(EscChars, MaxLen)
PrincipleHead == <<"Principle", " ", "1", ":", " ">>

EscParas(t) ==
    { Para(style, shd, runs, link) :
        style \in {"Heading 1", "Heading 2", "Heading 3", "List Paragraph", ""},
        shd \in {None}, runs \in {<<Run(t, "true", "true", x2E86C1)>>},
        link \in {<<>>} }
    \cup { Para("", x1B2A4A, <<PlainRun(t)>>, <<>>),
           Para("", None, <<>>, t),
           Para("Heading 2", None, <<>>, t) }

EscTables(t) ==
    { Table(2, <<RowOf(2, TextCell(x2E86C1, t))>>),
      Table(1, <<RowOf(1, TextCell(xB7860B, t))>>),
      Table(2, <<RowOf(2, TextCell(x1A7A4A, t))>>),
      Table(2, <<RowOf(2, TextCell(xF4F6F8, t)), RowOf(2, TextCell(xF4F6F8, t))>>),
      Table(1, <<RowOf(1, TextCell(xFFFDF4, <<"1", ".", " ">> \o t))>>),
      Table(2, <<RowOf(2, Cell(xD6E4F7, <<t, <<"a">> \o t>>))>>),
      Table(1, <<RowOf(1, TextCell(x1E4D8C, t)), RowOf(1, TextCell(x1E4D8C, t))>>),
      Table(1, <<RowOf(1, TextCell(x1E4D8C, PrincipleHead \o t)),
                 RowOf(1, TextCell(x1E4D8C, t))>>),
      Table(3, <<RowOf(3, TextCell(x1B2A4A, t)), RowOf(3, TextCell(None, t))>>),
      Table(4, <<RowOf(4, TextCell(xC8E6C9, t))>>),
      Table(1, <<RowOf(1, TextCell(None, t)), RowOf(1, TextCell(xABCDEF, t))>>) }

EscBlocks == {OtherTag} \cup UNION {EscParas(t) \cup EscTables(t) : t \in EscTexts}

InitEscape ==
    /\ body \in {<<b>> : b \in EscBlocks}
    /\ WalkStart

SpecEscape == InitEscape /\ [][Next]_vars

(***************************************************************************)
(* The functions called on their own.                                      *)
(***************************************************************************)
CallStart ==
    /\ body = <<>>
    /\ pos = 0
    /\ html_parts = <<>>
    /\ in_list = FALSE
    /\ pc = "start"
    /\ ret = NoRet

\* raw fill values of the first cell
ClassifyFills ==
    { None, <<>>, Lower(AUTO), NONE, x1E4D8C, x2E86C1, Lower(x2E86C1), x1A7A4A,
      xB7860B, x1B2A4A, xFFFFFF, xF4F6F8, xFEF9EC, xFFFDF4, xD6E4F0, xD6E4F7,
      xC8E6C9, xDCEDC8, xABCDEF }

\* tables of every shape: n rows, c declared columns, k cells in the first row
ShapeTablesOf(c) ==
    { Table(c, [i \in 1..n |-> RowOf(IF i = 1 THEN k ELSE c, TextCell(f, <<"a">>))]) :
        f \in ClassifyFills, n \in 0..MaxRows, k \in 0..c }

ShapeTables == UNION {ShapeTablesOf(c) : c \in 1..MaxCols}

TakeawayRows ==
    { <<>>, <<TextCell(xFEF9EC, <<>>)>>, <<TextCell(xFEF9EC, <<" ">>)>>,
      <<TextCell(xFEF9EC, <<"a">>)>>,
      <<TextCell(xFEF9EC, <<"1", "2", ".", " ", " ", "b", " ">>)>> }

TakeawayTables == {Table(1, rows) : rows \in SeqsUpTo(TakeawayRows, MaxRows)}

TwoColRows ==
    { <<TextCell(xFFFFFF, l), TextCell(xFFFFFF, r)>> :
        l \in {<<>>, <<"a">>}, r \in {<<" ">>, <<"b">>} }
    \cup { <<TextCell(xFFFFFF, <<"a">>)>> }

TwoColTables == {Table(2, rows) : rows \in SeqsUpTo(TwoColRows, MaxRows)}

Tables == ShapeTables \cup TakeawayTables \cup TwoColTables

InitTable ==
    /\ arg \in Tables
    /\ CallStart

CallClassifyTable ==
    /\ pc = "start"
    /\ arg.kind = "tbl"
    /\ ret' = classify_table(arg)
    /\ pc' = "classified"
    /\ UNCHANGED <<body, pos, html_parts, in_list, arg>>

CallTableToHtml ==
    /\ pc = "start"
    /\ arg.kind = "tbl"
    /\ ret' = table_to_html(arg)
    /\ pc' = "rendered"
    /\ UNCHANGED <<body, pos, html_parts, in_list, arg>>

NextTable == CallClassifyTable \/ CallTableToHtml

SpecTable == InitTable /\ [][NextTable]_vars

\* raw shading values of a paragraph
ParaShadings ==
    { None, <<>>, Lower(AUTO), NONE, Lower(NONE), x1E4D8C, x2E86C1, Lower(x2E86C1),
      x1A7A4A, xB7860B, x1B2A4A, xFFFFFF, xD6E4F0 }

ParaStyles ==
    {"", "Normal", "Heading 1", "Heading 2", "Heading 3", "Heading 4", "List Paragraph"}

ParaContents ==
    { <<<<>>, <<>>>>, <<<<PlainRun(<<" ">>)>>, <<>>>>,
      <<<<PlainRun(<<" ", "a">>)>>, <<>>>>,
      <<<<Run(<<"a", "<">>, "true", "unset", x1A7A4A)>>, <<>>>>,
      <<<<PlainRun(<<>>)>>, <<"a", " ">>>> }

Paras ==
    { Para(style, shd, c[1], c[2]) :
        style \in ParaStyles, shd \in ParaShadings, c \in ParaContents }

InitPara ==
    /\ arg \in Paras
    /\ CallStart

CallParaToHtml ==
    /\ pc = "start"
    /\ arg.kind = "p"
    /\ ret' = Returned(para_to_html(arg))
    /\ pc' = "para_done"
    /\ UNCHANGED <<body, pos, html_parts, in_list, arg>>

SpecPara == InitPara /\ [][CallParaToHtml]_vars

\* raw color values of a run
RunColors ==
    {None, NONE, Lower(AUTO), xFFFFFF, WHITE, Lower(x2E86C1), xC8960C, xABCDEF}

RunSet ==
    { Run(text, bold, italic, color) :
        text \in {<<>>, <<"a", "<">>}, bold \in {"true", "false", "unset"},
        italic \in {"true", "unset"}, color \in RunColors }

RunParas == {Para("", None, runs, <<>>) : runs \in SeqsUpTo(RunSet, MaxRuns)}

InitRuns ==
    /\ arg \in RunParas
    /\ CallStart

CallRunsToHtml ==
    /\ pc = "start"
    /\ arg.kind = "p"
    /\ ret' = Returned(runs_to_html(arg))
    /\ pc' = "runs_done"
    /\ UNCHANGED <<body, pos, html_parts, in_list, arg>>

SpecRuns == InitRuns /\ [][CallRunsToHtml]_vars

\* every spelling of s in upper and lower case
CaseVariants(s) ==
    {t \in [1..Len(s) -> {s[k] : k \in 1..Len(s)}
                         \cup {LowerChar(s[k]) : k \in 1..Len(s)}] : Upper(t) = s}

\* raw attribute values: missing, empty, and spellings of AUTO, NONE and colors
RawValues ==
    {None, <<>>} \cup CaseVariants(AUTO) \cup CaseVariants(NONE)
    \cup CaseVariants(x2E86C1) \cup CaseVariants(xFFFFFF) \cup {x000000}

InitExtract ==
    /\ arg \in RawValues
    /\ CallStart

CallGetCellFill ==
    /\ pc = "start"
    /\ ret' = Returned(get_cell_fill(Cell(arg, <<>>)))
    /\ pc' = "cell_fill"
    /\ UNCHANGED <<body, pos, html_parts, in_list, arg>>

CallGetRunColor ==
    /\ pc = "start"
    /\ ret' = Returned(get_run_color(Run(<<"a">>, "unset", "unset", arg)))
    /\ pc' = "run_color"
    /\ UNCHANGED <<body, pos, html_parts, in_list, arg>>

CallGetParaShading ==
    /\ pc = "start"
    /\ ret' = Returned(get_para_shading(Para("", arg, <<>>, <<>>)))
    /\ pc' = "para_shading"
    /\ UNCHANGED <<body, pos, html_parts, in_list, arg>>

\* runs_to_html on a paragraph of one run "a" with the raw color
CallRunsOfColor ==
    /\ pc = "start"
    /\ ret' = Returned(runs_to_html(Para("", None,
                                         <<Run(<<"a">>, "unset", "unset", arg)>>, <<>>)))
    /\ pc' = "run_rendered"
    /\ UNCHANGED <<body, pos, html_parts, in_list, arg>>

NextExtract ==
    \/ CallGetCellFill
    \/ CallGetRunColor
    \/ CallGetParaShading
    \/ CallRunsOfColor

SpecExtract == InitExtract /\ [][NextExtract]_vars

(***************************************************************************)
(* What the specification says of the inputs, stated on the inputs alone.  *)
(***************************************************************************)
\* A stored color value as the specification reads it: 'AUTO', 'NONE' and the
\* empty string, in any letter case, and a missing value are absence.
SpecColor(raw) ==
    IF raw = None THEN None
    ELSE IF Upper(raw) \in {AUTO, NONE, <<>>} THEN None
    ELSE Upper(raw)

\* the paragraphs and tables among the children of the body, in order
RECURSIVE BodyBlocks(_)
BodyBlocks(children) ==
    IF children = <<>> THEN <<>>
    ELSE IF Head(children).kind \in {"p", "tbl"}
    THEN <<Head(children)>> \o BodyBlocks(Tail(children))
    ELSE BodyBlocks(Tail(children))

IsBlankPara(b) == b.kind = "p" /\ Strip(ParaText(b)) = <<>>

IsListItemPara(b) ==
    b.kind = "p" /\ b.style = "List Paragraph" /\ Strip(ParaText(b)) # <<>>

\* the fragment of a block that is not a blank paragraph
FragmentOf(b) == IF b.kind = "tbl" THEN table_to_html(b).val ELSE para_to_html(b)

CountOf(parts, x) == Cardinality({k \in DOMAIN parts : parts[k] = x})

(***************************************************************************)
(* C1.  When doc_to_html_body finishes, it has emitted as many '<ul>'      *)
(* fragments as '</ul>' fragments: no list container is left unclosed.     *)
(***************************************************************************)
C1_ListsClosed ==
    pc = "done" => CountOf(html_parts, UlOpen) = CountOf(html_parts, UlClose)

\* the walk finished on a body whose last block is a list item, so the
\* terminal close acted
C1_Witness ==
    /\ pc = "done"
    /\ body # <<>>
    /\ IsListItemPara(body[Len(body)])
    /\ html_parts[Len(html_parts)] = UlClose

(***************************************************************************)
(* C2.  In the output of doc_to_html_body every maximal run of consecutive *)
(* list-item paragraphs is wrapped in exactly one '<ul>' ... '</ul>' pair  *)
(* holding exactly those items; containers are never nested; no fragment   *)
(* of a table, of a non-list paragraph or of a blank paragraph lies inside *)
(* a pair.  Stated by position: block i contributes '<ul>' before its      *)
(* fragment iff it is a list item and block i - 1 is not, '</ul>' after it *)
(* iff it is a list item and block i + 1 is not, and nothing else is       *)
(* emitted.                                                                *)
(***************************************************************************)
WrappedPiece(blocks, i) ==
    LET b == blocks[i]
        first == IsListItemPara(b) /\ (i = 1 \/ ~IsListItemPara(blocks[i - 1]))
        last == IsListItemPara(b) /\ (i = Len(blocks) \/ ~IsListItemPara(blocks[i + 1]))
    IN  IF IsBlankPara(b) THEN <<>>
        ELSE (IF first THEN <<UlOpen>> ELSE <<>>) \o <<FragmentOf(b)>>
             \o (IF last THEN <<UlClose>> ELSE <<>>)

WrappedRuns(blocks) == Concat([i \in 1..Len(blocks) |-> WrappedPiece(blocks, i)])

\* C2: the finished accumulator is the body's blocks with every maximal run of
\* list items wrapped in one '<ul>' ... '</ul>' pair, and nothing else.
C2_RunsWrappedOnce == pc = "done" => html_parts = WrappedRuns(BodyBlocks(body))

\* the scenario of the specification: three list items, then a plain paragraph
C2_Witness ==
    /\ pc = "done"
    /\ Len(body) = 4
    /\ \A k \in 1..3 : IsListItemPara(body[k])
    /\ body[4].kind = "p" /\ ~IsListItemPara(body[4]) /\ ~IsBlankPara(body[4])
    /\ Len(html_parts) = 6

(***************************************************************************)
(* C6.  Every '<', '&' and '"' of document content reaches the output of   *)
(* doc_to_html_body only in its escaped form, on every rendering path: no  *)
(* plain-character token of the output is one of the three.                *)
(***************************************************************************)
C6_ContentEscaped ==
    pc = "done" => \A k \in DOMAIN ret.val : ret.val[k] \notin {"<", "&", "\""}

\* a table whose cells hold '&' and '"' was rendered, and both entities are in
\* the output
C6_Witness ==
    /\ pc = "done"
    /\ body[1].kind = "tbl"
    /\ CellText(body[1].rows[1][1]) = <<"&", "\"">>
    /\ \E k \in DOMAIN ret.val : ret.val[k] = "&amp;"
    /\ \E k \in DOMAIN ret.val : ret.val[k] = "&quot;"

(***************************************************************************)
(* C9.  para_to_html yields exactly one outcome per paragraph, chosen in   *)
(* this order: nothing if the trimmed text is empty; else h1/h2/h3 for the *)
(* heading styles; else a list item for 'List Paragraph'; else a shaded    *)
(* block iff the shading is one of the five strong colors; else a plain    *)
(* paragraph.  The style check precedes the shading check, and an absent   *)
(* style behaves like an unrecognized one.                                 *)
(***************************************************************************)
ExpectedOutcome(para) ==
    IF Strip(ParaText(para)) = <<>> THEN "nothing"
    ELSE IF para.style = "Heading 1" THEN "h1"
    ELSE IF para.style = "Heading 2" THEN "h2"
    ELSE IF para.style = "Heading 3" THEN "h3"
    ELSE IF para.style = "List Paragraph" THEN "li"
    ELSE IF SpecColor(para.shd) \in StrongShadings THEN "shaded"
    ELSE "p"

\* the outcome a result is: its opening and closing tokens
OutcomeOf(result) ==
    LET open == result[1]
        close == result[Len(result)]
    IN  IF result = None THEN "nothing"
        ELSE IF open = "<h1>" /\ close = "</h1>" THEN "h1"
        ELSE IF open = "<h2>" /\ close = "</h2>" THEN "h2"
        ELSE IF open = "<h3>" /\ close = "</h3>" THEN "h3"
        ELSE IF open = "<li>" /\ close = "</li>" THEN "li"
        ELSE IF open = "<div class=\"shaded-para " /\ close = "</div>" THEN "shaded"
        ELSE IF open = "<p>" /\ close = "</p>" THEN "p"
        ELSE "other"

\* C9: the outcome of para_to_html is the one the decision list gives.
C9_OneOutcomeInOrder == pc = "para_done" => OutcomeOf(ret.val) = ExpectedOutcome(arg)

\* a heading that carries a strong shading was rendered as a heading
C9_Witness ==
    /\ pc = "para_done"
    /\ arg.style = "Heading 1"
    /\ SpecColor(arg.shd) \in StrongShadings
    /\ OutcomeOf(ret.val) = "h1"

(***************************************************************************)
(* C3.  For every table classify_table returns a role that depends only on *)
(* (row count, column count, first-cell fill) and is the role of the first *)
(* matching rule of the priority list; a table without a first-cell fill   *)
(* is generic.                                                             *)
(***************************************************************************)
\* the fill of the first cell, absent when the table has no first cell
FirstCellFill(table) ==
    IF Len(table.rows) >= 1 /\ Len(table.rows[1]) >= 1
    THEN SpecColor(table.rows[1][1].fill)
    ELSE None

\* the priority list of the specification
FirstMatchingRole(n, c, f) ==
    IF n = 0 THEN "generic"
    ELSE IF f = None THEN "generic"
    ELSE IF n = 1 /\ c = 2 /\ f = x2E86C1 THEN "school-name-bar"
    ELSE IF n = 1 /\ c = 1 /\ f \in {x1E4D8C, x2E86C1, x1A7A4A, xB7860B, x1B2A4A}
    THEN "section-label"
    ELSE IF n = 1 /\ c = 2 /\ f = x1A7A4A THEN "got-right-header"
    ELSE IF c = 2 /\ n > 1 /\ f \in {xFFFFFF, xF4F6F8} THEN "two-col-content"
    ELSE IF c = 1 /\ f \in {xFEF9EC, xFFFDF4} THEN "takeaway-box"
    ELSE IF c = 2 /\ f \in {xD6E4F0, xD6E4F7} THEN "info-grid"
    ELSE IF c = 1 /\ f \in {x1E4D8C, x1B2A4A} THEN "principle-header"
    ELSE IF f = x1B2A4A /\ c >= 3 THEN "score-table"
    ELSE IF n = 1 /\ c >= 4 /\ f = xC8E6C9 THEN "score-legend"
    ELSE "generic"

\* C3: classify_table returns, for every table, the role of the first matching
\* rule for (row count, column count, first-cell fill).
C3_ClassifiesEveryTable ==
    pc = "classified" =>
        /\ ~ret.raised
        /\ ret.val = FirstMatchingRole(Len(arg.rows), arg.cols, FirstCellFill(arg))

\* what TLC finds to hold: every role that classify_table does return is the
\* role of the priority list
C3_RoleWhenReturned ==
    pc = "classified" /\ ~ret.raised =>
        ret.val = FirstMatchingRole(Len(arg.rows), arg.cols, FirstCellFill(arg))

(***************************************************************************)
(* C4.  For every table, rows shorter than the declared column count       *)
(* included (down to no cell at all), classify_table and table_to_html     *)
(* complete without raising and return a fragment; a short row never       *)
(* aborts the walk of doc_to_html_body.                                    *)
(***************************************************************************)
C4_NeverRaises ==
    /\ pc \in {"classified", "rendered"} => ~ret.raised
    /\ pc # "raised"

(***************************************************************************)
(* C5.  For a table classified takeaway-box the rendered items are the     *)
(* rows whose first cell is non-empty after trimming, in row order, and    *)
(* the k-th rendered item carries the number k: the numbers are 1, 2, ..., *)
(* n with no gaps, however many empty rows were dropped before an item.    *)
(***************************************************************************)
\* the tokens that follow each occurrence of the token open, in order
RECURSIVE TokensAfter(_, _)
TokensAfter(out, open) ==
    IF Len(out) < 2 THEN <<>>
    ELSE IF Head(out) = open THEN <<out[2]>> \o TokensAfter(Tail(out), open)
    ELSE TokensAfter(Tail(out), open)

\* the rows of a one-column table whose first cell is non-empty after trimming
KeptTakeawayRows(table) ==
    {i \in 1..Len(table.rows) :
        Len(table.rows[i]) >= 1 /\ Strip(CellText(table.rows[i][1])) # <<>>}

\* C5: the numbers of the rendered takeaway items are 1, 2, ..., n, n the
\* number of rows whose first cell is non-empty after trimming.
C5_NumbersByRenderPosition ==
    pc = "rendered" /\ ~ret.raised /\ classify_table(arg) = Returned("takeaway-box") =>
        TokensAfter(ret.val, "<span class=\"takeaway-num\">")
            = [k \in 1..Cardinality(KeptTakeawayRows(arg)) |-> ToString(k)]

(***************************************************************************)
(* C10.  For a table classified two-col-content every row whose two cells  *)
(* are empty after trimming produces no output, every other row produces   *)
(* one two-cell block in row order, and the rows alternate the stripe      *)
(* class: consecutive rendered rows never carry the same stripe class.     *)
(***************************************************************************)
KeptTwoColRows(table) ==
    {i \in 1..Len(table.rows) :
        \/ Strip(CellText(table.rows[i][1])) # <<>>
        \/ Strip(CellText(table.rows[i][2])) # <<>>}

\* C10: one block per row that is not empty in both cells, and no two
\* consecutive blocks with the same stripe class.
C10_StripesAlternate ==
    pc = "rendered" /\ ~ret.raised /\ classify_table(arg) = Returned("two-col-content") =>
        LET stripes == TokensAfter(ret.val, "<div class=\"two-col-row ") IN
        /\ Len(stripes) = Cardinality(KeptTwoColRows(arg))
        /\ \A k \in 1..(Len(stripes) - 1) : stripes[k] # stripes[k + 1]

\* what TLC finds to hold: one block per kept row
C10_OneBlockPerKeptRow ==
    pc = "rendered" /\ ~ret.raised /\ classify_table(arg) = Returned("two-col-content") =>
        Len(TokensAfter(ret.val, "<div class=\"two-col-row "))
            = Cardinality(KeptTwoColRows(arg))

(***************************************************************************)
(* C7.  get_cell_fill, get_para_shading and get_run_color each return None *)
(* when the stored value is 'AUTO', 'NONE' or the empty string in any      *)
(* letter case, and otherwise the value uppercased; a run whose color      *)
(* value is 'NONE' gets no colored span in runs_to_html.                   *)
(***************************************************************************)
SpanOpen == "<span style=\"color:"

\* C7: each extractor returns the stored value uppercased, or None for a
\* missing, empty, 'AUTO' or 'NONE' value; an absent color gives no span.
C7_AbsentValues ==
    /\ pc \in {"cell_fill", "run_color", "para_shading"} => ret.val = SpecColor(arg)
    /\ pc = "run_rendered" /\ SpecColor(arg) = None =>
           \A k \in DOMAIN ret.val : ret.val[k] # SpanOpen

\* what TLC finds to hold: the cell and paragraph extractors do as stated
C7_FillAndShading ==
    pc \in {"cell_fill", "para_shading"} => ret.val = SpecColor(arg)

(***************************************************************************)
(* C8.  For every run with non-empty text runs_to_html escapes the text,   *)
(* then nests bold innermost, italic around it, the colored span           *)
(* outermost; a wrapper is there iff its flag is true (unset counts as     *)
(* false) or, for the span, a color that is not suppressed is present; a   *)
(* run with empty text contributes nothing; the result is the              *)
(* concatenation of the runs' results in run order.                        *)
(***************************************************************************)
ExpectedRunHtml(run) ==
    LET color == SpecColor(run.color)
        bold == IF run.bold = "true"
                THEN <<"<strong>">> \o escape(run.text) \o <<"</strong>">>
                ELSE escape(run.text)
        italic == IF run.italic = "true" THEN <<"<em>">> \o bold \o <<"</em>">> ELSE bold
    IN  IF run.text = <<>> THEN <<>>
        ELSE IF color # None /\ color \notin SuppressedColors
        THEN <<SpanOpen>> \o CssColor(color) \o <<"\">">> \o italic \o <<"</span>">>
        ELSE italic

\* C8: the result of runs_to_html is the concatenation, in run order, of each
\* run's escaped text wrapped bold innermost, italic, colored span outermost.
C8_RunsNestInOrder ==
    pc = "runs_done" =>
        ret.val = Concat([k \in 1..Len(arg.runs) |-> ExpectedRunHtml(arg.runs[k])])

\* what TLC finds to hold: the same, for paragraphs none of whose runs has the
\* color value 'NONE'
C8_ExceptColorNone ==
    pc = "runs_done" /\ (\A k \in 1..Len(arg.runs) : arg.runs[k].color # NONE) =>
        ret.val = Concat([k \in 1..Len(arg.runs) |-> ExpectedRunHtml(arg.runs[k])])

(***************************************************************************)
(* C11.  In runs_to_html a run whose font color is one of the default      *)
(* colors 000000, 1A1A2E, 333333, FFFFFF gets no color styling; a run with *)
(* any other present color gets exactly one colored span, whose value is   *)
(* the CSS variable of the brand table when the hex is listed there and    *)
(* the literal '#<hex>' otherwise; a run with no color gets no span.       *)
(***************************************************************************)
DefaultColors == {x000000, x1A1A2E, x333333, xFFFFFF}

\* the known-brand substitution table of the specification
BrandVariables ==
    { <<x2E86C1, "var(--blue)">>, <<x1E4D8C, "var(--navy)">>,
      <<x1A7A4A, "var(--green)">>, <<xB7860B, "var(--gold)">>,
      <<xC8960C, "var(--gold)">>, <<x888888, "var(--mid)">>,
      <<x555555, "var(--mid)">>, <<x6B7A8D, "var(--mid)">> }

\* the values of the colored spans of a run that renders, as the claim has
\* them: none, or one
ExpectedSpanValues(run) ==
    LET color == SpecColor(run.color) IN
    IF run.text = <<>> \/ color = None \/ color \in DefaultColors THEN <<>>
    ELSE IF \E p \in BrandVariables : p[1] = color
    THEN <<<<(CHOOSE p \in BrandVariables : p[1] = color)[2]>>>>
    ELSE <<<<"#">> \o color>>

\* the tokens of out up to the first token stop
RECURSIVE TokensUntil(_, _)
TokensUntil(out, stop) ==
    IF out = <<>> \/ Head(out) = stop THEN <<>>
    ELSE <<Head(out)>> \o TokensUntil(Tail(out), stop)

\* the values of the colored spans of out, in order, letter case set aside
RECURSIVE SpanValues(_)
SpanValues(out) ==
    IF out = <<>> THEN <<>>
    ELSE IF Head(out) = SpanOpen
    THEN <<Upper(TokensUntil(Tail(out), "\">"))>> \o SpanValues(Tail(out))
    ELSE SpanValues(Tail(out))

UpperAll(values) == [k \in 1..Len(values) |-> Upper(values[k])]

\* C11: the colored spans of the result are, run by run, the ones the claim
\* gives: none for a missing or default color, one with the brand variable or
\* '#<hex>' for any other color.
C11_SpanPerColor ==
    pc = "runs_done" =>
        SpanValues(ret.val)
            = UpperAll(Concat([k \in 1..Len(arg.runs) |-> ExpectedSpanValues(arg.runs[k])]))

\* what TLC finds to hold: the same, for paragraphs none of whose runs has the
\* color value 'NONE' or 'WHITE'
C11_ExceptNoneAndWhite ==
    pc = "runs_done" /\ (\A k \in 1..Len(arg.runs) : arg.runs[k].color \notin {NONE, WHITE})
        => SpanValues(ret.val)
            = UpperAll(Concat([k \in 1..Len(arg.runs) |-> ExpectedSpanValues(arg.runs[k])]))

(***************************************************************************)
(* C12.  The output of doc_to_html_body with the '<ul>' and '</ul>'        *)
(* markers removed is exactly the sequence of the fragments of the blocks  *)
(* in document order: one fragment per table and per non-blank paragraph,  *)
(* none for a blank paragraph, none dropped, duplicated or reordered; the  *)
(* walker never changes the input blocks.                                  *)
(***************************************************************************)
IsMarker(fragment) == fragment \in {UlOpen, UlClose}

NotMarker(fragment) == ~IsMarker(fragment)

\* the fragments of the blocks, in order, blank paragraphs left out
RECURSIVE FragmentsOf(_)
FragmentsOf(blocks) ==
    IF blocks = <<>> THEN <<>>
    ELSE IF IsBlankPara(Head(blocks)) THEN FragmentsOf(Tail(blocks))
    ELSE <<FragmentOf(Head(blocks))>> \o FragmentsOf(Tail(blocks))

\* the accumulator without its markers is the fragments of the children
\* consumed so far (all of them, once the walk is done)
FragmentsInOrder ==
    SelectSeq(html_parts, NotMarker) = FragmentsOf(BodyBlocks(SubSeq(body, 1, pos)))

\* C12: at every point of the walk, and so in its output, the accumulator
\* without the markers is the consumed blocks' fragments in document order,
\* and no step changes the body.
C12_FragmentsInOrder == [](pc \in {"walk", "done"} => FragmentsInOrder) /\ [][body' = body]_vars

\* a finished walk over a list item, a blank paragraph, a table and one more
\* block: three fragments, the list closed by the blank paragraph
C12_Witness ==
    /\ pc = "done"
    /\ Len(body) = 4
    /\ IsListItemPara(body[1])
    /\ IsBlankPara(body[2])
    /\ body[3].kind = "tbl"
    /\ Len(SelectSeq(html_parts, NotMarker)) = 3
    /\ Len(html_parts) = 5

(***************************************************************************)
(* C13.  After every step of the walker loop in_list is true iff the last  *)
(* fragment appended to the accumulator is a list item; so every '<ul>' is *)
(* immediately followed by an '<li>' fragment and every '</ul>' is         *)
(* immediately preceded by one: no empty list container is produced, also  *)
(* when a blank paragraph interrupts a list or a list ends the document.   *)
(***************************************************************************)
IsListItemFragment(fragment) == fragment # <<>> /\ fragment[1] = "<li>"

LastIsListItem(parts) == parts # <<>> /\ IsListItemFragment(parts[Len(parts)])

\* C13: inside the loop the flag says whether the last fragment is a list item,
\* and at every point each '<ul>' has an '<li>' right after it and each '</ul>'
\* an '<li>' right before it.
C13_FlagTracksLastFragment ==
    /\ pc = "walk" => (in_list <=> LastIsListItem(html_parts))
    /\ \A k \in DOMAIN html_parts :
           /\ html_parts[k] = UlOpen =>
                  k < Len(html_parts) /\ IsListItemFragment(html_parts[k + 1])
           /\ html_parts[k] = UlClose =>
                  k > 1 /\ IsListItemFragment(html_parts[k - 1])

\* inside the loop, right after a blank paragraph has interrupted a list: the
\* list is closed and the flag is down
C13_Witness ==
    /\ pc = "walk"
    /\ pos >= 2
    /\ IsListItemPara(body[pos - 1])
    /\ IsBlankPara(body[pos])
    /\ html_parts[Len(html_parts)] = UlClose
    /\ ~in_list

====
